---- MODULE Spec2Model ----
(***************************************************************************)
(* A model of thera_bot.py: the poll cycle TheraBot.check_and_notify with  *)
(* its notification tracker, the ESI distance cache, the Eve-Scout feed    *)
(* filter and the TheraConnection normaliser.                              *)
(*                                                                         *)
(* Time is a discrete clock `now`; one unit is 30 minutes, so the ESI      *)
(* cache duration timedelta(minutes=30) is 1 and the default cooldown of   *)
(* 3600 seconds is 2.  Synchronous code is one atomic step: a step of a    *)
(* cycle runs from one point where the coroutine really suspends (an HTTP  *)
(* request or a Discord send) to the next one.                             *)
(***************************************************************************)
EXTENDS Integers, Sequences, FiniteSets, TLC

\* ------------------------------------------------------------ bounds
\* The clock stops at MaxTime.
MaxTime == 3

\* ------------------------------------------------------------ constants
THERA_SYSTEM_ID == 31000005
\* timedelta(minutes=30), in units of 30 minutes.
cache_duration == 1

\* Python's None for an Optional[int]: a value that is no number.
None == <<>>
Some(x) == <<x>>
IsNone(o) == o = <<>>
Val(o) == o[1]

\* A string field that holds Python's None, and the AttributeError that
\* calling a str method on it raises.
PyNone == "<None>"
AttributeError == "AttributeError"

\* dict.get(key, default) on a raw signature record.
Get(raw_data, key, default) ==
    IF key \in DOMAIN raw_data THEN raw_data[key] ELSE default

\* str.startswith for a one-character prefix; a name is a sequence of characters.
StartsWith(name, ch) == Len(name) > 0 /\ name[1] = ch

\* ------------------------------------------------------------ the world
\* Solar systems: one origin, two destinations, two k-space exits, one
\* wormhole-space exit and one system unrelated to Thera.
SystemIds ==
    [origin1 |-> 21, dest1 |-> 22, dest2 |-> 23, exitA |-> 11, exitB |-> 12,
     exitJ |-> 13, elsewhere |-> 14]
Origin1 == SystemIds.origin1
Dest1 == SystemIds.dest1
Dest2 == SystemIds.dest2
ExitA == SystemIds.exitA
ExitB == SystemIds.exitB
ExitJ == SystemIds.exitJ
Elsewhere == SystemIds.elsewhere

\* Signatures the Eve-Scout feed can hold.  KA has Thera on its "out" side,
\* KB has Thera on its "in" side, WJ leads to wormhole space, NT does not touch
\* Thera at all.  KB lacks the optional fields.
RawKA ==
    [id |-> 1, out_system_id |-> THERA_SYSTEM_ID, out_system_name |-> <<"T", "h">>,
     out_signature |-> "TA", in_system_id |-> ExitA, in_system_name |-> <<"A", "m">>,
     in_signature |-> "KA", in_system_class |-> "HS", max_ship_size |-> "Large",
     remaining_hours |-> 12]
RawKB ==
    [id |-> 2, in_system_id |-> THERA_SYSTEM_ID, in_system_name |-> <<"T", "h">>,
     in_signature |-> "TB", out_system_id |-> ExitB, out_system_name |-> <<"D", "o">>,
     out_signature |-> "KB"]
RawWJ ==
    [id |-> 3, out_system_id |-> THERA_SYSTEM_ID, out_system_name |-> <<"T", "h">>,
     out_signature |-> "TJ", in_system_id |-> ExitJ, in_system_name |-> <<"J", "1">>,
     in_signature |-> "WJ", in_system_class |-> "c5", max_ship_size |-> "xlarge",
     remaining_hours |-> 3]
RawNT ==
    [id |-> 4, out_system_id |-> Elsewhere, out_system_name |-> <<"J", "2">>,
     out_signature |-> "NA", in_system_id |-> ExitA, in_system_name |-> <<"A", "m">>,
     in_signature |-> "NB", in_system_class |-> "hs", max_ship_size |-> "small",
     remaining_hours |-> 1]

\* A signature with Thera on both sides.
RawTT ==
    [id |-> 5, out_system_id |-> THERA_SYSTEM_ID, out_system_name |-> <<"T", "h">>,
     out_signature |-> "TC", in_system_id |-> THERA_SYSTEM_ID,
     in_system_name |-> <<"T", "h">>, in_signature |-> "TD", in_system_class |-> "c3",
     max_ship_size |-> "medium", remaining_hours |-> 6]

\* What the Eve-Scout request can come back with: a list of signatures, a
\* status other than 200, or a transport error.
FeedOk(signatures) == [kind |-> "ok", status |-> 200, signatures |-> signatures]
FeedFailures ==
    {[kind |-> "ok", status |-> 503, signatures |-> <<>>],
     [kind |-> "error", status |-> 0, signatures |-> <<>>]}
E2EFeed == <<RawWJ, RawKA>>
Feeds ==
    {<<>>, <<RawNT>>, <<RawWJ>>, E2EFeed, <<RawWJ, RawKB>>, <<RawKA, RawNT, RawKB>>,
     <<RawKB, RawKA>>}
FeedResponses == {FeedOk(f) : f \in Feeds} \cup FeedFailures
\* The fewer lists used where time passes between the cycles.
SerialFeedResponses ==
    {FeedOk(f) : f \in {<<>>, <<RawWJ>>, E2EFeed, <<RawKB, RawKA>>}} \cup FeedFailures
\* The fewer lists used where two cycles interleave.
FewFeedResponses == {FeedOk(<<RawWJ, RawKB>>)} \cup FeedFailures

\* The lists with a signature that has Thera on both sides.
LoopFeedResponses == {FeedOk(<<RawTT>>), FeedOk(<<RawTT, RawKA>>)} \cup FeedFailures

\* The lists of one k-space connection.
RoundFeedResponses == {FeedOk(<<RawKA>>), FeedOk(<<RawKB>>)} \cup FeedFailures

\* The one list of one k-space connection.
SeenFeedResponses == {FeedOk(<<RawKB>>)} \cup FeedFailures

\* The length of the route ESI returns (the route lists the origin too).
RouteLen(from, to) ==
    CASE from = Origin1 /\ to = ExitA -> 4
      [] from = Origin1 /\ to = ExitB -> 4
      [] from = ExitA /\ to = Dest1 -> 5
      [] from = ExitB /\ to = Dest1 -> 4
      [] from = ExitA /\ to = Dest2 -> 4
      [] from = ExitB /\ to = Dest2 -> 2
      [] OTHER -> 1

\* What the ESI route request for (from, to) can come back with.
RouteResponses(from, to) ==
    {[kind |-> "ok", status |-> 200, route_len |-> RouteLen(from, to)],
     [kind |-> "ok", status |-> 404, route_len |-> 0],
     [kind |-> "ok", status |-> 502, route_len |-> 0],
     [kind |-> "error", status |-> 0, route_len |-> 0]}

\* ------------------------------------------------------------ configuration
Departure(sid) == [name |-> "O", system_id |-> sid]
Destination(sid, mj) == [name |-> "D", system_id |-> sid, max_jumps |-> mj]

\* One origin, one destination; cooldown 1800 seconds.
CfgOne ==
    [departure_systems |-> <<Departure(Origin1)>>,
     destinations |-> <<Destination(Dest1, 6)>>,
     cooldown_seconds |-> 1]
\* One origin, two destinations; cooldown 1800 seconds.
CfgMain ==
    [departure_systems |-> <<Departure(Origin1)>>,
     destinations |-> <<Destination(Dest1, 6), Destination(Dest2, 5)>>,
     cooldown_seconds |-> 1]
\* The end-to-end scenario: one origin, one destination within 10 jumps,
\* the default cooldown of 3600 seconds.
CfgE2E ==
    [departure_systems |-> <<Departure(Origin1)>>,
     destinations |-> <<Destination(Dest1, 10)>>,
     cooldown_seconds |-> 2]

\* The one system is where the pilots start and where they are going, so
\* that both directions of a pair of systems are looked up.
CfgRound ==
    [departure_systems |-> <<Departure(Origin1)>>,
     destinations |-> <<Destination(Origin1, 6)>>,
     cooldown_seconds |-> 1]

\* One origin, two destinations, the second with a threshold the routes
\* do not meet; cooldown 3600 seconds.
CfgSeen ==
    [departure_systems |-> <<Departure(Origin1)>>,
     destinations |-> <<Destination(Dest1, 6), Destination(Dest2, 3)>>,
     cooldown_seconds |-> 2]

\* ------------------------------------------------------------ Eve-Scout
\* EveScoutClient.get_thera_connections: [] unless the status is 200, else the
\* signatures with Thera on either side, in feed order.
IsTheraSig(sig) ==
    sig.out_system_id = THERA_SYSTEM_ID \/ sig.in_system_id = THERA_SYSTEM_ID

get_thera_connections(response) ==
    IF response.kind = "error" THEN <<>>
    ELSE IF response.status # 200 THEN <<>>
    ELSE SelectSeq(response.signatures, IsTheraSig)

\* TheraConnection.__init__ reading Thera's signature from the "out" side
\* whichever side Thera is on.
TheraConnection_out_signature(raw_data) ==
    IF raw_data.out_system_id = THERA_SYSTEM_ID
    THEN [raw |-> raw_data, id |-> raw_data.id,
          thera_signature |-> raw_data.out_signature,
          exit_system_id |-> raw_data.in_system_id,
          exit_system_name |-> raw_data.in_system_name,
          exit_signature |-> raw_data.in_signature,
          security_class |-> Get(raw_data, "in_system_class", "unknown"),
          max_ship_size |-> Get(raw_data, "max_ship_size", "unknown"),
          remaining_hours |-> Get(raw_data, "remaining_hours", 0)]
    ELSE [raw |-> raw_data, id |-> raw_data.id,
          thera_signature |-> raw_data.out_signature,
          exit_system_id |-> raw_data.out_system_id,
          exit_system_name |-> raw_data.out_system_name,
          exit_signature |-> raw_data.in_signature,
          security_class |->
              Get(raw_data, "out_system_class", Get(raw_data, "in_system_class", "unknown")),
          max_ship_size |-> Get(raw_data, "max_ship_size", "unknown"),
          remaining_hours |-> Get(raw_data, "remaining_hours", 0)]

\* TheraConnection.__init__ reading max_ship_size with no default.
TheraConnection_no_size_default(raw_data) ==
    IF raw_data.out_system_id = THERA_SYSTEM_ID
    THEN [raw |-> raw_data, id |-> raw_data.id,
          thera_signature |-> raw_data.out_signature,
          exit_system_id |-> raw_data.in_system_id,
          exit_system_name |-> raw_data.in_system_name,
          exit_signature |-> raw_data.in_signature,
          security_class |-> Get(raw_data, "in_system_class", "unknown"),
          max_ship_size |-> Get(raw_data, "max_ship_size", PyNone),
          remaining_hours |-> Get(raw_data, "remaining_hours", 0)]
    ELSE [raw |-> raw_data, id |-> raw_data.id,
          thera_signature |-> raw_data.in_signature,
          exit_system_id |-> raw_data.out_system_id,
          exit_system_name |-> raw_data.out_system_name,
          exit_signature |-> raw_data.out_signature,
          security_class |->
              Get(raw_data, "out_system_class", Get(raw_data, "in_system_class", "unknown")),
          max_ship_size |-> Get(raw_data, "max_ship_size", PyNone),
          remaining_hours |-> Get(raw_data, "remaining_hours", 0)]

\* TheraConnection.__init__
TheraConnection(raw_data) ==
    IF raw_data.out_system_id = THERA_SYSTEM_ID
    THEN [raw |-> raw_data, id |-> raw_data.id,
          thera_signature |-> raw_data.out_signature,
          exit_system_id |-> raw_data.in_system_id,
          exit_system_name |-> raw_data.in_system_name,
          exit_signature |-> raw_data.in_signature,
          security_class |-> Get(raw_data, "in_system_class", "unknown"),
          max_ship_size |-> Get(raw_data, "max_ship_size", "unknown"),
          remaining_hours |-> Get(raw_data, "remaining_hours", 0)]
    ELSE [raw |-> raw_data, id |-> raw_data.id,
          thera_signature |-> raw_data.in_signature,
          exit_system_id |-> raw_data.out_system_id,
          exit_system_name |-> raw_data.out_system_name,
          exit_signature |-> raw_data.out_signature,
          security_class |->
              Get(raw_data, "out_system_class", Get(raw_data, "in_system_class", "unknown")),
          max_ship_size |-> Get(raw_data, "max_ship_size", "unknown"),
          remaining_hours |-> Get(raw_data, "remaining_hours", 0)]

\* The filter looking for a lower-case 'j'.
IsJSpace_lower_case(conn) == StartsWith(conn.exit_system_name, "j")

\* check_and_notify, lines 540-547: normalise every connection and drop the
\* ones whose exit name starts with 'J'.
IsJSpace(conn) == StartsWith(conn.exit_system_name, "J")
KeepsConnection(raw_data) == ~IsJSpace(TheraConnection(raw_data))

\* The loop keeping every normalised connection.
ProcessConnections_unfiltered(connections) ==
    [i \in 1..Len(connections) |-> TheraConnection(connections[i])]

\* Lines 541-547.
ProcessConnections(connections) ==
    LET kept == SelectSeq(connections, KeepsConnection)
    IN  [i \in 1..Len(kept) |-> TheraConnection(kept[i])]

\* ------------------------------------------------------------ ESI
\* A cache key that does not tell the two directions apart.
CacheKey_unordered(origin_id, destination_id) ==
    IF origin_id <= destination_id THEN <<origin_id, destination_id>>
    ELSE <<destination_id, origin_id>>

\* ESIClient.get_route_jumps, line 203: cache_key = (origin_id, destination_id).
CacheKey(origin_id, destination_id) == <<origin_id, destination_id>>

\* The cache check without the expiry test.
CacheHit_no_expiry(cache, cache_key, t) == cache_key \in DOMAIN cache

\* ESIClient.get_route_jumps, lines 203-208: the cached value is used when the
\* key is cached and younger than the cache duration.
CacheHit(cache, cache_key, t) ==
    /\ cache_key \in DOMAIN cache
    /\ t - cache[cache_key].cached_at < cache_duration

\* The jump count taken to be the length of the route.
RouteResult_route_length(response) ==
    IF response.kind = "error" THEN None
    ELSE IF response.status = 404 THEN None
    ELSE IF response.status # 200 THEN None
    ELSE Some(response.route_len)

\* Lines 220-242: the value the request's outcome turns into.
RouteResult(response) ==
    IF response.kind = "error" THEN None
    ELSE IF response.status = 404 THEN None
    ELSE IF response.status # 200 THEN None
    ELSE Some(response.route_len - 1)

\* The cache written whatever the outcome, a None kept as 0 jumps.
CacheStore_always(cache, cache_key, result, t) ==
    (cache_key :> [jumps |-> IF IsNone(result) THEN 0 ELSE Val(result), cached_at |-> t])
        @@ cache

\* Line 233: the cache after the request's outcome.
CacheStore(cache, cache_key, result, t) ==
    IF IsNone(result) THEN cache
    ELSE (cache_key :> [jumps |-> Val(result), cached_at |-> t]) @@ cache

\* ------------------------------------------------------------ dicts
\* A Python dict whose iteration order matters: a sequence of <<key, value>>
\* in insertion order.  d[k] = v keeps the place of a key already present.
DictHas(d, k) == \E i \in 1..Len(d) : d[i][1] = k
DictSet(d, k, v) ==
    IF DictHas(d, k)
    THEN [i \in 1..Len(d) |-> IF d[i][1] = k THEN <<k, v>> ELSE d[i]]
    ELSE Append(d, <<k, v>>)

\* outer.get(k, {}) on a dict of dicts kept as a function.
GetOrEmpty(outer, k) == IF k \in DOMAIN outer THEN outer[k] ELSE <<>>

\* ------------------------------------------------------------ distance lookups
\* The get_route_jumps calls of one cycle in the order of lines 556-573: for
\* every departure every connection, then for every destination every
\* connection.
Lookups(cfg, conns) ==
    LET nc == Len(conns)
        nd == Len(cfg.departure_systems)
        nt == Len(cfg.destinations)
    IN  [i \in 1..((nd + nt) * nc) |->
            LET c == ((i - 1) % nc) + 1
                g == ((i - 1) \div nc) + 1
            IN  IF g <= nd
                THEN [side |-> "departure", system_id |-> cfg.departure_systems[g].system_id,
                      conn |-> conns[c], first |-> (c = 1),
                      origin_id |-> cfg.departure_systems[g].system_id,
                      destination_id |-> conns[c].exit_system_id,
                      cache_key |-> CacheKey(cfg.departure_systems[g].system_id,
                                             conns[c].exit_system_id)]
                ELSE [side |-> "destination",
                      system_id |-> cfg.destinations[g - nd].system_id,
                      conn |-> conns[c], first |-> (c = 1),
                      origin_id |-> conns[c].exit_system_id,
                      destination_id |-> cfg.destinations[g - nd].system_id,
                      cache_key |-> CacheKey(conns[c].exit_system_id,
                                             cfg.destinations[g - nd].system_id)]]

\* Lines 558 and 569: a new outer-loop iteration starts from an empty dict.
BeginLookup(maps, lk) ==
    IF ~lk.first THEN maps
    ELSE IF lk.side = "departure"
    THEN [maps EXCEPT !.departure_to_wh_jumps = (lk.system_id :> <<>>) @@ @]
    ELSE [maps EXCEPT !.wh_to_dest_jumps = (lk.system_id :> <<>>) @@ @]

\* The loops storing 0 for a result that is None.
StoreJumps_none_as_zero(maps, lk, result) ==
    IF lk.side = "departure"
    THEN [maps EXCEPT !.departure_to_wh_jumps[lk.system_id] =
                          DictSet(@, lk.conn.id, IF IsNone(result) THEN 0 ELSE Val(result))]
    ELSE [maps EXCEPT !.wh_to_dest_jumps[lk.system_id] =
                          DictSet(@, lk.conn.id, IF IsNone(result) THEN 0 ELSE Val(result))]

\* Lines 561-562 and 572-573: a result that is not None is stored under the
\* connection's id.
StoreJumps(maps, lk, result) ==
    IF IsNone(result) THEN maps
    ELSE IF lk.side = "departure"
    THEN [maps EXCEPT !.departure_to_wh_jumps[lk.system_id] =
                          DictSet(@, lk.conn.id, Val(result))]
    ELSE [maps EXCEPT !.wh_to_dest_jumps[lk.system_id] =
                          DictSet(@, lk.conn.id, Val(result))]

\* The calls from position i on that the cache answers, up to the first call
\* that has to send a request (or to the end of the loops): those run without
\* suspending the coroutine.  pos is the position of the pending call, or one
\* past the last lookup; seen lists what the calls so far returned (the local
\* `jumps` of lines 560 and 571).
RECURSIVE RunLookups(_, _, _, _, _, _)
RunLookups(lks, i, maps, seen, cache, t) ==
    IF i > Len(lks) THEN [pos |-> i, maps |-> maps, seen |-> seen]
    ELSE LET began == BeginLookup(maps, lks[i])
         IN  IF CacheHit(cache, lks[i].cache_key, t)
             THEN RunLookups(lks, i + 1,
                             StoreJumps(began, lks[i], Some(cache[lks[i].cache_key].jumps)),
                             Append(seen, Some(cache[lks[i].cache_key].jumps)),
                             cache, t)
             ELSE [pos |-> i, maps |-> began, seen |-> seen]

\* ------------------------------------------------------------ notification tracker
\* TheraBot._get_route_key.  The key is the four ids joined by '_'; the ids
\* are integers, so the string determines the four of them and the tuple
\* stands for it.
get_route_key(departure, entry_conn, exit_conn, destination) ==
    <<departure.system_id, entry_conn.id, exit_conn.id, destination.system_id>>

\* _is_on_cooldown true for as long as the tracker holds a record.
is_on_cooldown_until_swept(notified, cooldown, key, t) == key \in DOMAIN notified

\* _is_on_cooldown with the comparison turned round.
is_on_cooldown_reversed(notified, cooldown, key, t) ==
    IF key \notin DOMAIN notified THEN FALSE
    ELSE t - notified[key] > cooldown

\* _is_on_cooldown still suppressing when exactly the cooldown has passed.
is_on_cooldown_inclusive(notified, cooldown, key, t) ==
    IF key \notin DOMAIN notified THEN FALSE
    ELSE t - notified[key] <= cooldown

\* TheraBot._is_on_cooldown
is_on_cooldown(notified, cooldown, key, t) ==
    IF key \notin DOMAIN notified THEN FALSE
    ELSE t - notified[key] < cooldown

\* The sweep with the present as its cutoff: every record made up to now is
\* dropped, whatever the cooldown.
clean_old_notifications_cutoff_now(notified, cooldown, t) ==
    LET cutoff == t
        kept == {k \in DOMAIN notified : notified[k] > cutoff}
    IN  [k \in kept |-> notified[k]]

\* The sweep keeping the entries that are exactly at the cutoff.
clean_old_notifications_inclusive(notified, cooldown, t) ==
    LET cutoff == t - cooldown * 2
        kept == {k \in DOMAIN notified : notified[k] >= cutoff}
    IN  [k \in kept |-> notified[k]]

\* TheraBot._clean_old_notifications
clean_old_notifications(notified, cooldown, t) ==
    LET cutoff == t - cooldown * 2
        kept == {k \in DOMAIN notified : notified[k] > cutoff}
    IN  [k \in kept |-> notified[k]]

\* ------------------------------------------------------------ route matching
\* Line 576: the connection stored under an id (the last one, were an id to
\* repeat).
ConnById(conns, conn_id) ==
    conns[CHOOSE i \in 1..Len(conns) :
              /\ conns[i].id = conn_id
              /\ \A j \in (i + 1)..Len(conns) : conns[j].id # conn_id]

\* The scan letting a later connection at the same distance replace the best.
RECURSIVE BestFrom_last_wins(_, _, _)
BestFrom_last_wins(items, i, best) ==
    IF i > Len(items) THEN best
    ELSE IF IsNone(best) \/ items[i][2] <= Val(best)[2]
    THEN BestFrom_last_wins(items, i + 1, Some(items[i]))
    ELSE BestFrom_last_wins(items, i + 1, best)

\* Lines 591-594 and 597-600: the scan over a distance dict for the closest
\* connection, from item i on with `best` the best so far (None, or
\* Some(<<conn_id, jumps>>)).
RECURSIVE BestFrom(_, _, _)
BestFrom(items, i, best) ==
    IF i > Len(items) THEN best
    ELSE IF IsNone(best) \/ items[i][2] < Val(best)[2]
    THEN BestFrom(items, i + 1, Some(items[i]))
    ELSE BestFrom(items, i + 1, best)

FindBest(items) == BestFrom(items, 1, None)

\* The threshold test refusing a total equal to max_jumps.
MeetsThreshold_strict(total_jumps, destination) == total_jumps < destination.max_jumps

\* Line 608: the threshold test.
MeetsThreshold(total_jumps, destination) == total_jumps <= destination.max_jumps

\* The pair refused when its best entry and best exit are one connection.
MatchPair_two_wormholes(cfg, conns, maps, departure, destination, acc, t) ==
    LET dep_jumps == GetOrEmpty(maps.departure_to_wh_jumps, departure.system_id)
        dest_jumps == GetOrEmpty(maps.wh_to_dest_jumps, destination.system_id)
        best_entry == FindBest(dep_jumps)
        best_exit == FindBest(dest_jumps)
        seen == [departure |-> departure, destination |-> destination,
                 best_entry |-> best_entry, best_exit |-> best_exit,
                 passed |-> FALSE, elapsed |-> None]
    IN  IF IsNone(best_entry) \/ IsNone(best_exit)
           \/ Val(best_entry)[1] = Val(best_exit)[1]
        THEN [acc EXCEPT !.matched = Append(@, seen)]
        ELSE LET entry_conn == ConnById(conns, Val(best_entry)[1])
                 exit_conn == ConnById(conns, Val(best_exit)[1])
                 jumps_dep_to_entry == Val(best_entry)[2]
                 jumps_exit_to_dest == Val(best_exit)[2]
                 total_jumps == jumps_dep_to_entry + jumps_exit_to_dest
                 key == get_route_key(departure, entry_conn, exit_conn, destination)
                 route == [departure |-> departure, entry_conn |-> entry_conn,
                           exit_conn |-> exit_conn, destination |-> destination,
                           jumps_dep_to_entry |-> jumps_dep_to_entry,
                           jumps_exit_to_dest |-> jumps_exit_to_dest]
                 elapsed ==
                     IF key \in DOMAIN acc.notified THEN Some(t - acc.notified[key])
                     ELSE None
                 checked == [seen EXCEPT !.passed = TRUE, !.elapsed = elapsed]
             IN  IF ~MeetsThreshold(total_jumps, destination)
                 THEN [acc EXCEPT !.matched = Append(@, seen)]
                 ELSE IF is_on_cooldown(acc.notified, cfg.cooldown_seconds, key, t)
                 THEN [acc EXCEPT !.matched = Append(@, checked)]
                 ELSE [good_routes |-> Append(acc.good_routes, route),
                       notified |-> (key :> t) @@ acc.notified,
                       matched |-> Append(acc.matched, checked)]

\* The pair's record refreshed whenever the route is seen within its
\* cooldown.
MatchPair_refresh_when_suppressed(cfg, conns, maps, departure, destination, acc, t) ==
    LET dep_jumps == GetOrEmpty(maps.departure_to_wh_jumps, departure.system_id)
        dest_jumps == GetOrEmpty(maps.wh_to_dest_jumps, destination.system_id)
        best_entry == FindBest(dep_jumps)
        best_exit == FindBest(dest_jumps)
        seen == [departure |-> departure, destination |-> destination,
                 best_entry |-> best_entry, best_exit |-> best_exit,
                 passed |-> FALSE, elapsed |-> None]
    IN  IF IsNone(best_entry) \/ IsNone(best_exit)
        THEN [acc EXCEPT !.matched = Append(@, seen)]
        ELSE LET entry_conn == ConnById(conns, Val(best_entry)[1])
                 exit_conn == ConnById(conns, Val(best_exit)[1])
                 jumps_dep_to_entry == Val(best_entry)[2]
                 jumps_exit_to_dest == Val(best_exit)[2]
                 total_jumps == jumps_dep_to_entry + jumps_exit_to_dest
                 key == get_route_key(departure, entry_conn, exit_conn, destination)
                 route == [departure |-> departure, entry_conn |-> entry_conn,
                           exit_conn |-> exit_conn, destination |-> destination,
                           jumps_dep_to_entry |-> jumps_dep_to_entry,
                           jumps_exit_to_dest |-> jumps_exit_to_dest]
                 elapsed ==
                     IF key \in DOMAIN acc.notified THEN Some(t - acc.notified[key])
                     ELSE None
                 checked == [seen EXCEPT !.passed = TRUE, !.elapsed = elapsed]
             IN  IF ~MeetsThreshold(total_jumps, destination)
                 THEN [acc EXCEPT !.matched = Append(@, seen)]
                 ELSE IF is_on_cooldown(acc.notified, cfg.cooldown_seconds, key, t)
                 THEN [acc EXCEPT !.matched = Append(@, checked),
                                  !.notified = (key :> t) @@ @]
                 ELSE [good_routes |-> Append(acc.good_routes, route),
                       notified |-> (key :> t) @@ acc.notified,
                       matched |-> Append(acc.matched, checked)]

\* Lines 582-613 for one (departure, destination) pair, on the accumulator
\* acc = [good_routes, notified, matched].  matched is the trace of the loop:
\* for every pair its best_entry and best_exit, whether it passed the
\* threshold test of line 608 and, if so, the datetime.now() - last_notified
\* that _is_on_cooldown computed (None when the key had no record).
MatchPair(cfg, conns, maps, departure, destination, acc, t) ==
    LET dep_jumps == GetOrEmpty(maps.departure_to_wh_jumps, departure.system_id)
        dest_jumps == GetOrEmpty(maps.wh_to_dest_jumps, destination.system_id)
        best_entry == FindBest(dep_jumps)
        best_exit == FindBest(dest_jumps)
        seen == [departure |-> departure, destination |-> destination,
                 best_entry |-> best_entry, best_exit |-> best_exit,
                 passed |-> FALSE, elapsed |-> None]
    IN  IF IsNone(best_entry) \/ IsNone(best_exit)
        THEN [acc EXCEPT !.matched = Append(@, seen)]
        ELSE LET entry_conn == ConnById(conns, Val(best_entry)[1])
                 exit_conn == ConnById(conns, Val(best_exit)[1])
                 jumps_dep_to_entry == Val(best_entry)[2]
                 jumps_exit_to_dest == Val(best_exit)[2]
                 total_jumps == jumps_dep_to_entry + jumps_exit_to_dest
                 key == get_route_key(departure, entry_conn, exit_conn, destination)
                 route == [departure |-> departure, entry_conn |-> entry_conn,
                           exit_conn |-> exit_conn, destination |-> destination,
                           jumps_dep_to_entry |-> jumps_dep_to_entry,
                           jumps_exit_to_dest |-> jumps_exit_to_dest]
                 elapsed ==
                     IF key \in DOMAIN acc.notified THEN Some(t - acc.notified[key])
                     ELSE None
                 checked == [seen EXCEPT !.passed = TRUE, !.elapsed = elapsed]
             IN  IF ~MeetsThreshold(total_jumps, destination)
                 THEN [acc EXCEPT !.matched = Append(@, seen)]
                 ELSE IF is_on_cooldown(acc.notified, cfg.cooldown_seconds, key, t)
                 THEN [acc EXCEPT !.matched = Append(@, checked)]
                 ELSE [good_routes |-> Append(acc.good_routes, route),
                       notified |-> (key :> t) @@ acc.notified,
                       matched |-> Append(acc.matched, checked)]

\* Lines 582-613: the pairs in loop order, departures outside, destinations
\* inside; k counts the pairs done.
RECURSIVE MatchFrom(_, _, _, _, _, _)
MatchFrom(cfg, conns, maps, k, acc, t) ==
    LET nt == Len(cfg.destinations)
    IN  IF k >= Len(cfg.departure_systems) * nt THEN acc
        ELSE MatchFrom(cfg, conns, maps, k + 1,
                       MatchPair(cfg, conns, maps,
                                 cfg.departure_systems[(k \div nt) + 1],
                                 cfg.destinations[(k % nt) + 1], acc, t),
                       t)

\* The matching loop with the check done but the records of the accepted
\* routes not written to the tracker.
MatchRoutes_record_dropped(cfg, conns, maps, notified, t) ==
    [MatchFrom(cfg, conns, maps, 0,
               [good_routes |-> <<>>, notified |-> notified, matched |-> <<>>], t)
         EXCEPT !.notified = notified]

\* The matching loop handing over the first accepted route only, the records
\* of all of them written.
MatchRoutes_first_route_only(cfg, conns, maps, notified, t) ==
    [MatchFrom(cfg, conns, maps, 0,
               [good_routes |-> <<>>, notified |-> notified, matched |-> <<>>], t)
         EXCEPT !.good_routes = IF Len(@) > 1 THEN <<@[1]>> ELSE @]

\* Lines 580-613: the matching loop from an empty good_routes.
MatchRoutes(cfg, conns, maps, notified, t) ==
    MatchFrom(cfg, conns, maps, 0,
              [good_routes |-> <<>>, notified |-> notified, matched |-> <<>>], t)

\* ------------------------------------------------------------ rendering
\* str.lower and str.capitalize on the values the feed holds.
Lower(str) ==
    CASE str = "HS" -> "hs"
      [] str = "Large" -> "large"
      [] OTHER -> str
Capitalize(str) ==
    CASE str = PyNone -> AttributeError
      [] Lower(str) = "small" -> "Small"
      [] Lower(str) = "medium" -> "Medium"
      [] Lower(str) = "large" -> "Large"
      [] Lower(str) = "xlarge" -> "Xlarge"
      [] Lower(str) = "capital" -> "Capital"
      [] Lower(str) = "unknown" -> "Unknown"
      [] OTHER -> str

\* TheraConnection.get_size_emoji
get_size_emoji(conn) ==
    CASE conn.max_ship_size = PyNone -> AttributeError
      [] Lower(conn.max_ship_size) = "small" -> "small blue diamond"
      [] Lower(conn.max_ship_size) = "medium" -> "large blue diamond"
      [] Lower(conn.max_ship_size) = "large" -> "blue square"
      [] Lower(conn.max_ship_size) = "xlarge" -> "purple square"
      [] Lower(conn.max_ship_size) = "capital" -> "red square"
      [] OTHER -> "question mark"

\* TheraConnection.get_security_emoji
get_security_emoji(conn) ==
    CASE conn.security_class = PyNone -> AttributeError
      [] Lower(conn.security_class) = "hs" -> "blue circle"
      [] Lower(conn.security_class) = "ls" -> "yellow circle"
      [] Lower(conn.security_class) = "ns" -> "red circle"
      [] OTHER -> "white circle"

\* TheraConnection.get_lifetime_status
get_lifetime_status(conn) ==
    IF conn.remaining_hours <= 4 THEN <<"warning EOL", conn.remaining_hours>>
    ELSE IF conn.remaining_hours <= 8 THEN <<"clock", conn.remaining_hours>>
    ELSE <<"check mark", conn.remaining_hours>>

\* send_notifications, line 644.
same_wormhole(route) == route.entry_conn.id = route.exit_conn.id

\* The value of a wormhole's embed field (lines 663-669 and 685-691).
WormholeField(conn) ==
    [security |-> get_security_emoji(conn), system |-> conn.exit_system_name,
     exit_signature |-> conn.exit_signature, thera_signature |-> conn.thera_signature,
     size |-> get_size_emoji(conn), size_text |-> Capitalize(conn.max_ship_size),
     lifetime |-> get_lifetime_status(conn)]

\* The embed send_notifications builds for a route (lines 632-699): the
\* totals, the entry field, and either the same-wormhole note or the exit
\* field.
Embed(route) ==
    [departure |-> route.departure.system_id, destination |-> route.destination.system_id,
     total |-> route.jumps_dep_to_entry + route.jumps_exit_to_dest,
     entry |-> WormholeField(route.entry_conn),
     same_wormhole |-> same_wormhole(route),
     exit |-> IF same_wormhole(route) THEN <<>> ELSE <<WormholeField(route.exit_conn)>>]

\* Building the embed's field for a connection raises.
FieldRaises(field) == AttributeError \in {field.security, field.size, field.size_text}

\* ------------------------------------------------------------ state
\* The callers of check_and_notify: the scheduler's interval job (one
\* instance at a time) and a direct caller, the `check` command or on_ready,
\* which awaits check_and_notify from its own task.  Each is a coroutine on
\* the one event loop.
Procs == {"scheduler", "check"}

VARIABLES
    now,                     \* datetime.now()
    config,                  \* TheraBot.config
    notified_connections,    \* TheraBot.notified_connections: key -> time
    route_cache,             \* ESIClient._route_cache: <<from, to>> -> (jumps, time)
    last_fired,              \* history: key -> the last time a route with it was accepted
    pc,                      \* where each caller's coroutine is suspended
    swept,                   \* the ages the sweep just done removed and kept
    connections,             \* check_and_notify's locals, per caller
    processed_connections,
    lookup_pos,              \* the get_route_jumps call whose request is pending
    departure_to_wh_jumps,
    wh_to_dest_jumps,
    jumps_seen,              \* what the get_route_jumps calls so far returned
    matched,                 \* the trace of the matching loop, pair by pair
    good_routes,
    send_pos,                \* send_notifications: the route being sent
    delivered                \* how many channel.send calls succeeded

shared == <<now, config, notified_connections, route_cache, last_fired>>
locals == <<swept, connections, processed_connections, lookup_pos, jumps_seen,
            departure_to_wh_jumps, wh_to_dest_jumps, matched, good_routes, send_pos,
            delivered>>
vars == <<shared, pc, locals>>

EmptyDict == [k \in {} |-> 0]

Running == {p \in Procs : pc[p] \in {"fetch", "route", "send"}}

MapsOf(p) ==
    [departure_to_wh_jumps |-> departure_to_wh_jumps[p],
     wh_to_dest_jumps |-> wh_to_dest_jumps[p]]

NothingSwept == [removed |-> {}, kept |-> {}]

FreshLocals(p) ==
    /\ connections' = [connections EXCEPT ![p] = <<>>]
    /\ processed_connections' = [processed_connections EXCEPT ![p] = <<>>]
    /\ lookup_pos' = [lookup_pos EXCEPT ![p] = 0]
    /\ departure_to_wh_jumps' = [departure_to_wh_jumps EXCEPT ![p] = EmptyDict]
    /\ wh_to_dest_jumps' = [wh_to_dest_jumps EXCEPT ![p] = EmptyDict]
    /\ jumps_seen' = [jumps_seen EXCEPT ![p] = <<>>]
    /\ matched' = [matched EXCEPT ![p] = <<>>]
    /\ good_routes' = [good_routes EXCEPT ![p] = <<>>]
    /\ send_pos' = [send_pos EXCEPT ![p] = 0]
    /\ delivered' = [delivered EXCEPT ![p] = 0]

InitLocals ==
    /\ pc = [p \in Procs |-> "idle"]
    /\ connections = [p \in Procs |-> <<>>]
    /\ processed_connections = [p \in Procs |-> <<>>]
    /\ lookup_pos = [p \in Procs |-> 0]
    /\ departure_to_wh_jumps = [p \in Procs |-> EmptyDict]
    /\ wh_to_dest_jumps = [p \in Procs |-> EmptyDict]
    /\ swept = [p \in Procs |-> NothingSwept]
    /\ jumps_seen = [p \in Procs |-> <<>>]
    /\ matched = [p \in Procs |-> <<>>]
    /\ good_routes = [p \in Procs |-> <<>>]
    /\ send_pos = [p \in Procs |-> 0]
    /\ delivered = [p \in Procs |-> 0]

\* TheraBot.__init__ and setup_hook: nothing notified, nothing cached.
InitShared ==
    /\ now = 0
    /\ notified_connections = EmptyDict
    /\ route_cache = EmptyDict
    /\ last_fired = EmptyDict

InitWith(configs) == config \in configs /\ InitShared /\ InitLocals

Init == InitWith({CfgOne})

\* ------------------------------------------------------------ the cycle
\* check_and_notify going to the feed without sweeping first.
StartCycle_no_sweep(p) ==
    /\ pc[p] = "idle"
    /\ notified_connections' = notified_connections
    /\ swept' = [swept EXCEPT ![p] =
           [removed |-> {},
            kept |-> {now - notified_connections[k] : k \in DOMAIN notified_connections}]]
    /\ pc' = [pc EXCEPT ![p] = "fetch"]
    /\ FreshLocals(p)
    /\ UNCHANGED <<now, config, route_cache, last_fired>>

\* check_and_notify up to its first await (lines 528-534): the sweep, then the
\* request to Eve-Scout is on its way.
StartCycle(p) ==
    /\ pc[p] = "idle"
    /\ notified_connections' =
           clean_old_notifications(notified_connections, config.cooldown_seconds, now)
    /\ swept' = [swept EXCEPT ![p] =
           [removed |-> {now - notified_connections[k] :
                            k \in DOMAIN notified_connections \ DOMAIN notified_connections'},
            kept |-> {now - notified_connections'[k] : k \in DOMAIN notified_connections'}]]
    /\ pc' = [pc EXCEPT ![p] = "fetch"]
    /\ FreshLocals(p)
    /\ UNCHANGED <<now, config, route_cache, last_fired>>

\* The cycle ends without matching (the returns of lines 538 and 551).
EndEarly(p, conns, processed) ==
    /\ pc' = [pc EXCEPT ![p] = "done"]
    /\ connections' = [connections EXCEPT ![p] = conns]
    /\ processed_connections' = [processed_connections EXCEPT ![p] = processed]
    /\ swept' = [swept EXCEPT ![p] = NothingSwept]
    /\ UNCHANGED <<shared, lookup_pos, jumps_seen, departure_to_wh_jumps,
                   wh_to_dest_jumps, matched, good_routes, send_pos, delivered>>

\* The history of acceptances at time t: the keys of the routes accepted
\* since t - cooldown, each with the last time it was accepted.  Older
\* acceptances are forgotten, for they are at least a cooldown before anything
\* still to come.
KeysOf(routes) ==
    {get_route_key(routes[i].departure, routes[i].entry_conn, routes[i].exit_conn,
                   routes[i].destination) : i \in 1..Len(routes)}

Recent(fired, cooldown, t) ==
    [k \in {x \in DOMAIN fired : t - fired[x] < cooldown} |-> fired[k]]

Stamp(fired, routes, cooldown, t) ==
    Recent([k \in DOMAIN fired \cup KeysOf(routes) |->
               IF k \in KeysOf(routes) THEN t ELSE fired[k]],
           cooldown, t)

\* Where the coroutine stands once the distance loops have run as far as the
\* cache carries them (run = RunLookups(...)): suspended on the next request,
\* or through lines 575-619 and into send_notifications (lines 626-630, where
\* channel_found is whether get_channel returned a channel).
Proceed(p, conns, run, channel_found) ==
    /\ departure_to_wh_jumps' =
           [departure_to_wh_jumps EXCEPT ![p] = run.maps.departure_to_wh_jumps]
    /\ wh_to_dest_jumps' = [wh_to_dest_jumps EXCEPT ![p] = run.maps.wh_to_dest_jumps]
    /\ jumps_seen' = [jumps_seen EXCEPT ![p] = run.seen]
    /\ IF run.pos <= Len(Lookups(config, conns))
       THEN /\ pc' = [pc EXCEPT ![p] = "route"]
            /\ lookup_pos' = [lookup_pos EXCEPT ![p] = run.pos]
            /\ UNCHANGED <<notified_connections, last_fired, matched, good_routes,
                           send_pos>>
       ELSE LET m == MatchRoutes(config, conns, run.maps, notified_connections, now)
            IN  /\ notified_connections' = m.notified
                /\ last_fired' = Stamp(last_fired, m.good_routes, config.cooldown_seconds, now)
                /\ matched' = [matched EXCEPT ![p] = m.matched]
                /\ good_routes' = [good_routes EXCEPT ![p] = m.good_routes]
                /\ lookup_pos' = [lookup_pos EXCEPT ![p] = run.pos]
                /\ IF m.good_routes # <<>> /\ channel_found
                   THEN /\ pc' = [pc EXCEPT ![p] = "send"]
                        /\ send_pos' = [send_pos EXCEPT ![p] = 1]
                   ELSE /\ pc' = [pc EXCEPT ![p] = "done"]
                        /\ UNCHANGED send_pos
    /\ swept' = [swept EXCEPT ![p] = NothingSwept]
    /\ UNCHANGED <<now, config, delivered>>

\* The Eve-Scout request completes (lines 534-560).
FetchReturn(p, response, channel_found) ==
    /\ pc[p] = "fetch"
    /\ LET conns == get_thera_connections(response)
           processed == ProcessConnections(conns)
       IN  IF conns = <<>> \/ processed = <<>>
           THEN EndEarly(p, conns, processed)
           ELSE /\ connections' = [connections EXCEPT ![p] = conns]
                /\ processed_connections' =
                       [processed_connections EXCEPT ![p] = processed]
                /\ UNCHANGED route_cache
                /\ Proceed(p, processed,
                           RunLookups(Lookups(config, processed), 1,
                                      [departure_to_wh_jumps |-> EmptyDict,
                                       wh_to_dest_jumps |-> EmptyDict],
                                      <<>>, route_cache, now),
                           channel_found)

\* The lookup whose request caller p is waiting for.
Pending(p) == Lookups(config, processed_connections[p])[lookup_pos[p]]

\* A lookup that yields None ends the cycle there and then.
LookupReturn_aborts(p, response, channel_found) ==
    /\ pc[p] = "route"
    /\ LET lk == Pending(p)
           result == RouteResult(response)
           cache == CacheStore(route_cache, lk.cache_key, result, now)
       IN  IF IsNone(result)
           THEN /\ pc' = [pc EXCEPT ![p] = "done"]
                /\ jumps_seen' = [jumps_seen EXCEPT ![p] = Append(@, result)]
                /\ UNCHANGED <<shared, swept, lookup_pos, departure_to_wh_jumps,
                               wh_to_dest_jumps, matched, good_routes, send_pos, delivered>>
           ELSE /\ route_cache' = cache
                /\ Proceed(p, processed_connections[p],
                           RunLookups(Lookups(config, processed_connections[p]),
                                      lookup_pos[p] + 1,
                                      StoreJumps(MapsOf(p), lk, result),
                                      Append(jumps_seen[p], result), cache, now),
                           channel_found)
    /\ UNCHANGED <<connections, processed_connections>>

\* A request that fails answered with the value the cache still holds for
\* the pair, however old.
LookupReturn_stale_on_failure(p, response, channel_found) ==
    /\ pc[p] = "route"
    /\ LET lk == Pending(p)
           fresh == RouteResult(response)
           result == IF IsNone(fresh) /\ lk.cache_key \in DOMAIN route_cache
                     THEN Some(route_cache[lk.cache_key].jumps)
                     ELSE fresh
           cache == CacheStore(route_cache, lk.cache_key, fresh, now)
       IN  /\ route_cache' = cache
           /\ Proceed(p, processed_connections[p],
                      RunLookups(Lookups(config, processed_connections[p]),
                                 lookup_pos[p] + 1,
                                 StoreJumps(MapsOf(p), lk, result),
                                 Append(jumps_seen[p], result), cache, now),
                      channel_found)
    /\ UNCHANGED <<connections, processed_connections>>

\* An ESI request completes (get_route_jumps lines 221-242, then the loops go
\* on).
LookupReturn(p, response, channel_found) ==
    /\ pc[p] = "route"
    /\ LET lk == Pending(p)
           result == RouteResult(response)
           cache == CacheStore(route_cache, lk.cache_key, result, now)
       IN  /\ route_cache' = cache
           /\ Proceed(p, processed_connections[p],
                      RunLookups(Lookups(config, processed_connections[p]),
                                 lookup_pos[p] + 1,
                                 StoreJumps(MapsOf(p), lk, result),
                                 Append(jumps_seen[p], result), cache, now),
                      channel_found)
    /\ UNCHANGED <<connections, processed_connections>>

\* A failed send taking the route's record back out of the tracker.
SendReturn_rollback(p, sent_ok) ==
    /\ pc[p] = "send"
    /\ delivered' = [delivered EXCEPT ![p] = IF sent_ok THEN @ + 1 ELSE @]
    /\ notified_connections' =
           IF sent_ok THEN notified_connections
           ELSE [k \in DOMAIN notified_connections \
                        KeysOf(<<good_routes[p][send_pos[p]]>>) |-> notified_connections[k]]
    /\ IF send_pos[p] < Len(good_routes[p])
       THEN /\ send_pos' = [send_pos EXCEPT ![p] = @ + 1]
            /\ UNCHANGED pc
       ELSE /\ pc' = [pc EXCEPT ![p] = "done"]
            /\ UNCHANGED send_pos
    /\ UNCHANGED <<now, config, route_cache, last_fired, swept, connections,
                   processed_connections, lookup_pos, jumps_seen, departure_to_wh_jumps,
                   wh_to_dest_jumps, matched, good_routes>>

\* channel.send completes or raises DiscordException (lines 701-709).
SendReturn(p, sent_ok) ==
    /\ pc[p] = "send"
    /\ delivered' = [delivered EXCEPT ![p] = IF sent_ok THEN @ + 1 ELSE @]
    /\ IF send_pos[p] < Len(good_routes[p])
       THEN /\ send_pos' = [send_pos EXCEPT ![p] = @ + 1]
            /\ UNCHANGED pc
       ELSE /\ pc' = [pc EXCEPT ![p] = "done"]
            /\ UNCHANGED send_pos
    /\ UNCHANGED <<shared, swept, connections, processed_connections, lookup_pos,
                   jumps_seen, departure_to_wh_jumps, wh_to_dest_jumps, matched,
                   good_routes>>

\* The coroutine returns and its frame is gone.
Return(p) ==
    /\ pc[p] = "done"
    /\ pc' = [pc EXCEPT ![p] = "idle"]
    /\ UNCHANGED swept
    /\ FreshLocals(p)
    /\ UNCHANGED shared

\* Time passes.
Tick ==
    /\ now < MaxTime
    /\ now' = now + 1
    /\ last_fired' = Recent(last_fired, config.cooldown_seconds, now + 1)
    /\ UNCHANGED <<config, notified_connections, route_cache, pc, locals>>

\* The HTTP statuses ESI answers with (0 stands for a transport error).
AllStatuses == {200, 404, 502, 0}

\* The steps of caller p when Eve-Scout answers from feed_responses and ESI
\* with one of statuses.
Cycle(p, feed_responses, statuses) ==
    \/ StartCycle(p)
    \/ \E r \in feed_responses, c \in BOOLEAN : FetchReturn(p, r, c)
    \/ /\ pc[p] = "route"
       /\ \E r \in RouteResponses(Pending(p).origin_id, Pending(p).destination_id),
             c \in BOOLEAN : r.status \in statuses /\ LookupReturn(p, r, c)
    \/ \E ok \in BOOLEAN : SendReturn(p, ok)
    \/ Return(p)

\* The program: the scheduler's cycles and the direct callers' cycles
\* interleave at their await points.
Next ==
    \/ \E p \in Procs : Cycle(p, FewFeedResponses, AllStatuses)
    \/ Tick

Spec == Init /\ [][Next]_vars

\* Cycles run one after another: the scheduler alone calls check_and_notify.
InitSerial == InitWith({CfgOne})

NextSerial ==
    \/ Cycle("scheduler", SerialFeedResponses, AllStatuses)
    \/ Tick

SpecSerial == InitSerial /\ [][NextSerial]_vars

\* Cycles run one after another within one instant, over two destinations and
\* every feed: the route matching on all the distance maps the lookups can
\* produce.
InitMatch == InitWith({CfgMain})

NextMatch == Cycle("scheduler", FeedResponses, AllStatuses)

SpecMatch == InitMatch /\ [][NextMatch]_vars

\* The end-to-end scenario: the feed returns the wormhole-space connection
\* and one k-space connection, and every ESI request succeeds.
InitE2E == InitWith({CfgE2E})

NextE2E ==
    \/ Cycle("scheduler", {FeedOk(E2EFeed)}, {200})
    \/ Tick

SpecE2E == InitE2E /\ [][NextE2E]_vars

\* The feed lists a signature with Thera on both sides.
InitLoop == InitWith({CfgOne})

NextLoop == Cycle("scheduler", LoopFeedResponses, AllStatuses)

SpecLoop == InitLoop /\ [][NextLoop]_vars

\* Both directions of a pair of systems are looked up in one cycle.
InitRound == InitWith({CfgRound})

NextRound ==
    \/ Cycle("scheduler", RoundFeedResponses, AllStatuses)
    \/ Tick

SpecRound == InitRound /\ [][NextRound]_vars

\* The same connection is listed cycle after cycle, over two destinations
\* and a cooldown of two time units.
InitSeen == InitWith({CfgSeen})

NextSeen ==
    \/ Cycle("scheduler", SeenFeedResponses, AllStatuses)
    \/ Tick

SpecSeen == InitSeen /\ [][NextSeen]_vars

\* The same connection is listed cycle after cycle, within reach of two
\* destinations: a cycle can accept two routes.
InitTwo == InitWith({CfgMain})

NextTwo ==
    \/ Cycle("scheduler", SeenFeedResponses, AllStatuses)
    \/ Tick

SpecTwo == InitTwo /\ [][NextTwo]_vars

\* A cycle's coroutine is resumed: the request or the send it awaits comes
\* back, or it returns.
Resume(p, feed_responses, statuses) ==
    \/ \E r \in feed_responses, c \in BOOLEAN : FetchReturn(p, r, c)
    \/ /\ pc[p] = "route"
       /\ \E r \in RouteResponses(Pending(p).origin_id, Pending(p).destination_id),
             c \in BOOLEAN : r.status \in statuses /\ LookupReturn(p, r, c)
    \/ \E ok \in BOOLEAN : SendReturn(p, ok)
    \/ Return(p)

\* The scheduler's cycles with what keeps them going: every request ends, in
\* an answer or in an error (aiohttp's ClientSession gives each request its
\* default total timeout, and get_route_jumps and get_thera_connections catch
\* every Exception), so does every send, and the event loop resumes a
\* coroutine whose await is over.
InitLive == InitWith({CfgOne})

NextLive ==
    \/ StartCycle("scheduler")
    \/ Resume("scheduler", FewFeedResponses, AllStatuses)
    \/ Tick

SpecLive ==
    InitLive /\ [][NextLive]_vars
        /\ WF_vars(Resume("scheduler", FewFeedResponses, AllStatuses))

\* The end-to-end scenario with the cycles kept running: the scheduler's
\* interval job calls check_and_notify again and again, and the event loop
\* resumes the coroutine whenever its request or its send has ended, in
\* whatever way (in this scenario the steps taken are those of NextE2E: the
\* feed answers with the list and ESI with a route).
SpecAgain ==
    InitE2E /\ [][NextE2E]_vars
        /\ WF_vars(Cycle("scheduler", {FeedOk(E2EFeed)} \cup FeedFailures, {200}))

\* ------------------------------------------------------------ the claims
\* Caller p is past the matching loop of the cycle it is in.
AfterMatch(p) == pc[p] \in {"send", "done"} /\ processed_connections[p] # <<>>

\* The step in which caller p runs the matching loop (lines 575-619).
MatchStep(p) ==
    /\ pc[p] \in {"fetch", "route"}
    /\ pc'[p] \in {"send", "done"}
    /\ processed_connections'[p] # <<>>

\* The fingerprint of a route, and of an entry of the matching trace that
\* has both a best entry and a best exit.
RouteKey(route) ==
    <<route.departure.system_id, route.entry_conn.id, route.exit_conn.id,
      route.destination.system_id>>
TraceKey(m) ==
    <<m.departure.system_id, Val(m.best_entry)[1], Val(m.best_exit)[1],
      m.destination.system_id>>
Accepted(p, m) == \E i \in 1..Len(good_routes[p]) : RouteKey(good_routes[p][i]) = TraceKey(m)

\* C1: with the cycles run one after another, a route is never added to the
\* emitted routes less than cooldown_seconds after a route with the same
\* fingerprint was: when a cycle accepts routes, none of their fingerprints
\* was accepted less than a cooldown ago, and no fingerprint is accepted twice
\* by the one cycle (which would be two notifications no time apart).
C1_CooldownBetweenNotifications ==
    [][\A p \in Procs :
          MatchStep(p) =>
              /\ \A i \in 1..Len(good_routes'[p]) :
                     RouteKey(good_routes'[p][i]) \notin DOMAIN last_fired
              /\ config.cooldown_seconds > 0 =>
                     \A i, j \in 1..Len(good_routes'[p]) :
                         i # j => RouteKey(good_routes'[p][i]) # RouteKey(good_routes'[p][j])
      ]_vars

\* C1's case: a cycle met a route again less than a cooldown after it was
\* notified, and left it out of its good routes.
C1_Witness ==
    \E p \in Procs :
        /\ AfterMatch(p)
        /\ \E i \in 1..Len(matched[p]) :
               /\ matched[p][i].passed
               /\ ~IsNone(matched[p][i].elapsed)
               /\ Val(matched[p][i].elapsed) < config.cooldown_seconds
               /\ TraceKey(matched[p][i]) \in DOMAIN last_fired
               /\ ~Accepted(p, matched[p][i])

\* C2: at most one poll cycle is between its start and its end at any time.
\* The code has no such guard: a `check` command or on_ready starts its cycle
\* while the scheduler's cycle is suspended on a request.
C2_OneCycleAtATime == Cardinality(Running) <= 1

\* C3 as stated: a route that passed the threshold is accepted if and only if
\* its fingerprint has no record or the record is older than the cooldown
\* (strictly), and the acceptance stores the current time under it.
C3_FiresIffOlderThanCooldown ==
    [][\A p \in Procs :
          MatchStep(p) =>
              \A i \in 1..Len(matched'[p]) :
                  LET m == matched'[p][i]
                      fired == \E j \in 1..Len(good_routes'[p]) :
                                   RouteKey(good_routes'[p][j]) = TraceKey(m)
                  IN  m.passed =>
                          /\ fired <=>
                                 \/ TraceKey(m) \notin DOMAIN notified_connections
                                 \/ now - notified_connections[TraceKey(m)] >
                                        config.cooldown_seconds
                          /\ fired => notified_connections'[TraceKey(m)] = now
      ]_vars

\* C3 as amended: ... or the record is at least as old as the cooldown.
C3_FiresIffCooldownElapsed ==
    [][\A p \in Procs :
          MatchStep(p) =>
              \A i \in 1..Len(matched'[p]) :
                  LET m == matched'[p][i]
                      fired == \E j \in 1..Len(good_routes'[p]) :
                                   RouteKey(good_routes'[p][j]) = TraceKey(m)
                  IN  m.passed =>
                          /\ fired <=>
                                 \/ TraceKey(m) \notin DOMAIN notified_connections
                                 \/ now - notified_connections[TraceKey(m)] >=
                                        config.cooldown_seconds
                          /\ fired => notified_connections'[TraceKey(m)] = now
      ]_vars

\* C3's case: a fingerprint recorded exactly a cooldown ago was accepted
\* again and its timestamp replaced by the current one.
C3_Witness ==
    \E p \in Procs :
        /\ pc[p] = "send"
        /\ \E i \in 1..Len(matched[p]) :
               /\ matched[p][i].passed
               /\ matched[p][i].elapsed = Some(config.cooldown_seconds)
               /\ Accepted(p, matched[p][i])
               /\ TraceKey(matched[p][i]) \in DOMAIN notified_connections
               /\ notified_connections[TraceKey(matched[p][i])] <= now

\* The get_route_jumps calls of caller p's cycle, and among those made so far
\* the distances that came back known (not None) for one system on one side.
CycleLookups(p) == Lookups(config, processed_connections[p])

KnownAt(p, side, system_id) ==
    {j \in 1..Len(jumps_seen[p]) :
        /\ CycleLookups(p)[j].side = side
        /\ CycleLookups(p)[j].system_id = system_id
        /\ ~IsNone(jumps_seen[p][j])}

KnownDistances(p, side, system_id) ==
    {Val(jumps_seen[p][j]) : j \in KnownAt(p, side, system_id)}

MinOf(S) == CHOOSE x \in S : \A y \in S : x <= y

\* The first connection, in the order of the filtered connection list, among
\* those at the minimum known distance: <<connection id, distance>>.
FirstClosest(p, side, system_id) ==
    LET at == KnownAt(p, side, system_id)
        least == MinOf(KnownDistances(p, side, system_id))
        j0 == MinOf({j \in at : Val(jumps_seen[p][j]) = least})
    IN  <<CycleLookups(p)[j0].conn.id, least>>

\* C4: for every (origin, destination) pair of a cycle (each pair is visited
\* once), a route candidate is produced if and only if some connection has a
\* known origin-to-exit distance, some connection has a known
\* exit-to-destination distance, and the two minima add up to at most the
\* destination's max_jumps.
C4_CandidateIffWithinMaxJumps ==
    \A p \in Procs :
        AfterMatch(p) =>
            /\ Len(matched[p]) = Len(config.departure_systems) * Len(config.destinations)
            /\ \A d \in 1..Len(config.departure_systems), e \in 1..Len(config.destinations) :
                   \E i \in 1..Len(matched[p]) :
                       /\ matched[p][i].departure = config.departure_systems[d]
                       /\ matched[p][i].destination = config.destinations[e]
            /\ \A i \in 1..Len(matched[p]) :
                   LET m == matched[p][i]
                       entry == KnownDistances(p, "departure", m.departure.system_id)
                       exit == KnownDistances(p, "destination", m.destination.system_id)
                   IN  m.passed <=>
                           /\ entry # {}
                           /\ exit # {}
                           /\ MinOf(entry) + MinOf(exit) <= m.destination.max_jumps

\* C4's case: one cycle produced a candidate whose total equals max_jumps and
\* refused a pair whose two distances are known but add up to more.
C4_Witness ==
    \E p \in Procs :
        /\ AfterMatch(p)
        /\ \E i, k \in 1..Len(matched[p]) :
               /\ matched[p][i].passed
               /\ Val(matched[p][i].best_entry)[2] + Val(matched[p][i].best_exit)[2] =
                      matched[p][i].destination.max_jumps
               /\ ~matched[p][k].passed
               /\ ~IsNone(matched[p][k].best_entry)
               /\ ~IsNone(matched[p][k].best_exit)
               /\ Val(matched[p][k].best_entry)[2] + Val(matched[p][k].best_exit)[2] >
                      matched[p][k].destination.max_jumps

\* C5: the best entry of a pair is the first connection, in the order of the
\* filtered connection list, at the minimum known distance from the origin,
\* and the best exit is the first one at the minimum known distance to the
\* destination; each is chosen from its own side alone, for every pair.
C5_BestIsFirstClosest ==
    \A p \in Procs :
        AfterMatch(p) =>
            \A i \in 1..Len(matched[p]) :
                LET m == matched[p][i]
                IN  /\ IF KnownAt(p, "departure", m.departure.system_id) = {}
                       THEN IsNone(m.best_entry)
                       ELSE m.best_entry =
                                Some(FirstClosest(p, "departure", m.departure.system_id))
                    /\ IF KnownAt(p, "destination", m.destination.system_id) = {}
                       THEN IsNone(m.best_exit)
                       ELSE m.best_exit =
                                Some(FirstClosest(p, "destination", m.destination.system_id))

\* C5's case: two connections tie for the closest to the origin and the first
\* of the list is the best entry, the best exit of the pair is the other
\* connection, and one connection is the best exit of two destinations.
C5_Witness ==
    \E p \in Procs :
        /\ AfterMatch(p)
        /\ Len(processed_connections[p]) = 2
        /\ \E i, k \in 1..Len(matched[p]) :
               /\ i # k
               /\ Cardinality(KnownAt(p, "departure", matched[p][i].departure.system_id)) = 2
               /\ Cardinality(KnownDistances(p, "departure",
                                             matched[p][i].departure.system_id)) = 1
               /\ Val(matched[p][i].best_entry)[1] = processed_connections[p][1].id
               /\ ~IsNone(matched[p][i].best_exit)
               /\ Val(matched[p][i].best_exit)[1] = processed_connections[p][2].id
               /\ matched[p][k].destination # matched[p][i].destination
               /\ matched[p][k].best_exit = Some(<<processed_connections[p][2].id,
                                                    Val(matched[p][k].best_exit)[2]>>)

\* C6: a connection whose lookup for an origin (or a destination) returned
\* None has no entry in that origin's (or destination's) distance dict, whose
\* values are exactly the distances that came back known, and it is not the
\* best entry (or best exit) of any pair with that origin (or destination).
C6_NoneIsLeftOut ==
    \A p \in Procs :
        /\ \A j \in 1..Len(jumps_seen[p]) :
               LET lk == CycleLookups(p)[j]
                   dict == IF lk.side = "departure"
                           THEN GetOrEmpty(departure_to_wh_jumps[p], lk.system_id)
                           ELSE GetOrEmpty(wh_to_dest_jumps[p], lk.system_id)
               IN  /\ IsNone(jumps_seen[p][j]) => ~DictHas(dict, lk.conn.id)
                   /\ {dict[i][2] : i \in 1..Len(dict)} \subseteq
                          KnownDistances(p, lk.side, lk.system_id)
        /\ AfterMatch(p) =>
               \A j \in 1..Len(jumps_seen[p]), i \in 1..Len(matched[p]) :
                   LET lk == CycleLookups(p)[j]
                       m == matched[p][i]
                   IN  IsNone(jumps_seen[p][j]) =>
                           /\ (lk.side = "departure" /\ lk.system_id = m.departure.system_id
                               /\ ~IsNone(m.best_entry))
                                  => Val(m.best_entry)[1] # lk.conn.id
                           /\ (lk.side = "destination"
                               /\ lk.system_id = m.destination.system_id
                               /\ ~IsNone(m.best_exit))
                                  => Val(m.best_exit)[1] # lk.conn.id

\* C6's case: the lookup of the first connection returned None on the entry
\* side and on the exit side, the second connection's were known, and the
\* pair produced a candidate through the second connection.
C6_Witness ==
    \E p \in Procs :
        /\ AfterMatch(p)
        /\ Len(processed_connections[p]) = 2
        /\ \E i \in 1..Len(matched[p]), j, k \in 1..Len(jumps_seen[p]) :
               /\ IsNone(jumps_seen[p][j])
               /\ IsNone(jumps_seen[p][k])
               /\ CycleLookups(p)[j].side = "departure"
               /\ CycleLookups(p)[j].conn.id = processed_connections[p][1].id
               /\ CycleLookups(p)[k].side = "destination"
               /\ CycleLookups(p)[k].system_id = matched[p][i].destination.system_id
               /\ CycleLookups(p)[k].conn.id = processed_connections[p][1].id
               /\ matched[p][i].passed
               /\ Val(matched[p][i].best_entry)[1] = processed_connections[p][2].id
               /\ Val(matched[p][i].best_exit)[1] = processed_connections[p][2].id

\* C7: in the end-to-end scenario (the feed returns a connection to
\* wormhole space and one k-space connection, one origin, one destination
\* with max_jumps 10, distances 3 and 4) every cycle that gets to matching
\* looks at the k-space connection alone and finds one candidate, of total 7,
\* whose entry and exit are that one connection.  A cycle that finds no
\* record of the route, as the first cycle does, emits exactly that one
\* route; a cycle run while the record is younger than the cooldown, as a
\* second cycle run immediately afterwards is, emits no route and sends
\* nothing.
C7_EndToEnd ==
    \A p \in Procs :
        AfterMatch(p) =>
            /\ Len(processed_connections[p]) = 1
            /\ processed_connections[p][1].id = RawKA.id
            /\ Len(matched[p]) = 1
            /\ LET m == matched[p][1]
               IN  /\ m.passed
                   /\ m.best_entry = Some(<<RawKA.id, 3>>)
                   /\ m.best_exit = Some(<<RawKA.id, 4>>)
                   /\ IsNone(m.elapsed) =>
                          /\ Len(good_routes[p]) = 1
                          /\ good_routes[p][1].jumps_dep_to_entry +
                                 good_routes[p][1].jumps_exit_to_dest = 7
                          /\ good_routes[p][1].entry_conn.id = good_routes[p][1].exit_conn.id
                          /\ good_routes[p][1].entry_conn.id = RawKA.id
                   /\ (~IsNone(m.elapsed) /\ Val(m.elapsed) < config.cooldown_seconds) =>
                          /\ good_routes[p] = <<>>
                          /\ pc[p] = "done"
                          /\ delivered[p] = 0

\* C7's case: a cycle run at the very time the route was recorded has ended
\* with no route to send.
C7_Witness ==
    \E p \in Procs :
        /\ AfterMatch(p)
        /\ pc[p] = "done"
        /\ matched[p][1].passed
        /\ matched[p][1].elapsed = Some(0)
        /\ good_routes[p] = <<>>
        /\ delivered[p] = 0
        /\ DOMAIN notified_connections = {<<Origin1, RawKA.id, RawKA.id, Dest1>>}

\* The number of get_route_jumps calls caller p's cycle has made: the pending
\* one and those before it.
CallsMade(p) ==
    IF lookup_pos[p] > Len(CycleLookups(p)) THEN Len(CycleLookups(p)) ELSE lookup_pos[p]

\* C8: a get_route_jumps call for a pair whose cached entry is younger than
\* the 30-minute window sends no request (so two calls within the window of
\* an entry make at most the one query that stored it), and a call for a pair
\* whose cached entry has reached the window's end sends a new request although
\* the earlier result is still stored.  The calls of a step are those past
\* CallsMade; the one that sent a request is the one left pending.
C8_CacheWindow ==
    [][\A p \in Procs :
          \A i \in (CallsMade(p) + 1)..(CallsMade(p)') :
              LET k == (CycleLookups(p)')[i].cache_key
                  requested == pc'[p] = "route" /\ lookup_pos'[p] = i
              IN  k \in DOMAIN route_cache' =>
                      (requested <=> now - route_cache'[k].cached_at >= cache_duration)
      ]_vars

\* C8's case: a caller is waiting for the answer to a request it sent for a
\* pair whose earlier result is still in the cache, the window over.
C8_Witness ==
    \E p \in Procs :
        /\ pc[p] = "route"
        /\ Pending(p).cache_key \in DOMAIN route_cache
        /\ now - route_cache[Pending(p).cache_key].cached_at >= cache_duration

\* C9 as stated: the sweep removes an entry only once its age exceeds
\* 2 * cooldown and keeps it at every earlier time, an age of exactly
\* 2 * cooldown included.
C9_KeptAtTwiceCooldown ==
    \A p \in Procs :
        pc[p] = "fetch" =>
            /\ \A age \in swept[p].removed : age > 2 * config.cooldown_seconds
            /\ \A age \in swept[p].kept : age <= 2 * config.cooldown_seconds

\* C9 as amended: the sweep removes an entry once its age has reached
\* 2 * cooldown and keeps it at every earlier time; after the sweep every
\* remaining entry is younger than 2 * cooldown.
C9_SweptAtTwiceCooldown ==
    \A p \in Procs :
        pc[p] = "fetch" =>
            /\ \A age \in swept[p].removed : age >= 2 * config.cooldown_seconds
            /\ \A age \in swept[p].kept : age < 2 * config.cooldown_seconds

\* C9's case: the sweep just done removed an entry aged exactly 2 * cooldown
\* and kept one a time unit younger.
C9_Witness ==
    \E p \in Procs :
        /\ pc[p] = "fetch"
        /\ (2 * config.cooldown_seconds) \in swept[p].removed
        /\ (2 * config.cooldown_seconds - 1) \in swept[p].kept

\* The anchor is on exactly one side of a raw connection.
OneAnchorSide(raw_data) ==
    (raw_data.out_system_id = THERA_SYSTEM_ID) # (raw_data.in_system_id = THERA_SYSTEM_ID)

\* C10: for a raw connection with the anchor on exactly one side, the
\* normalised connection's exit_system_id is the other side's system id, its
\* thera_signature the anchor side's signature and its exit_signature the
\* other side's, whether the anchor is the "out" or the "in" side.  This is
\* so of every connection the feed hands over and of every normalised
\* connection the cycle keeps.
C10_NormalisedSides ==
    \A p \in Procs :
        /\ \A i \in 1..Len(connections[p]) :
               LET raw_data == connections[p][i]
                   conn == TheraConnection(raw_data)
               IN  OneAnchorSide(raw_data) =>
                       IF raw_data.out_system_id = THERA_SYSTEM_ID
                       THEN /\ conn.exit_system_id = raw_data.in_system_id
                            /\ conn.thera_signature = raw_data.out_signature
                            /\ conn.exit_signature = raw_data.in_signature
                       ELSE /\ conn.exit_system_id = raw_data.out_system_id
                            /\ conn.thera_signature = raw_data.in_signature
                            /\ conn.exit_signature = raw_data.out_signature
        /\ \A i \in 1..Len(processed_connections[p]) :
               LET conn == processed_connections[p][i]
               IN  OneAnchorSide(conn.raw) =>
                       /\ conn.exit_system_id # THERA_SYSTEM_ID
                       /\ conn.exit_system_id \in {conn.raw.in_system_id, conn.raw.out_system_id}
                       /\ IF conn.raw.out_system_id = THERA_SYSTEM_ID
                          THEN /\ conn.thera_signature = conn.raw.out_signature
                               /\ conn.exit_signature = conn.raw.in_signature
                          ELSE /\ conn.thera_signature = conn.raw.in_signature
                               /\ conn.exit_signature = conn.raw.out_signature

\* C10's case: a cycle holds two normalised connections, one from a record
\* with the anchor on the "out" side and one from a record with the anchor on
\* the "in" side.
C10_Witness ==
    \E p \in Procs :
        \E i, j \in 1..Len(processed_connections[p]) :
            /\ processed_connections[p][i].raw.out_system_id = THERA_SYSTEM_ID
            /\ processed_connections[p][i].raw.in_system_id # THERA_SYSTEM_ID
            /\ processed_connections[p][j].raw.in_system_id = THERA_SYSTEM_ID
            /\ processed_connections[p][j].raw.out_system_id # THERA_SYSTEM_ID
            /\ processed_connections[p][i].exit_system_id = ExitA
            /\ processed_connections[p][j].exit_system_id = ExitB

\* C11: a connection whose exit system name begins with 'J' never reaches
\* the route matcher: it is not among the processed connections, no
\* get_route_jumps call and no cache entry has its exit system as an end, it
\* is in no distance dict, it is no pair's best entry or best exit, and it is
\* the entry or exit of no emitted route.
C11_JSpaceNeverMatched ==
    \A p \in Procs :
        \A i \in 1..Len(connections[p]) :
            LET conn == TheraConnection(connections[p][i])
            IN  StartsWith(conn.exit_system_name, "J") =>
                    /\ \A j \in 1..Len(processed_connections[p]) :
                           processed_connections[p][j].id # conn.id
                    /\ \A j \in 1..Len(CycleLookups(p)) :
                           /\ CycleLookups(p)[j].conn.id # conn.id
                           /\ conn.exit_system_id \notin
                                  {CycleLookups(p)[j].cache_key[1],
                                   CycleLookups(p)[j].cache_key[2]}
                    /\ \A k \in DOMAIN route_cache :
                           conn.exit_system_id \notin {k[1], k[2]}
                    /\ \A sid \in DOMAIN departure_to_wh_jumps[p] :
                           ~DictHas(departure_to_wh_jumps[p][sid], conn.id)
                    /\ \A sid \in DOMAIN wh_to_dest_jumps[p] :
                           ~DictHas(wh_to_dest_jumps[p][sid], conn.id)
                    /\ \A j \in 1..Len(matched[p]) :
                           /\ ~IsNone(matched[p][j].best_entry) =>
                                  Val(matched[p][j].best_entry)[1] # conn.id
                           /\ ~IsNone(matched[p][j].best_exit) =>
                                  Val(matched[p][j].best_exit)[1] # conn.id
                    /\ \A j \in 1..Len(good_routes[p]) :
                           /\ good_routes[p][j].entry_conn.id # conn.id
                           /\ good_routes[p][j].exit_conn.id # conn.id

\* C11's case: the feed held a connection to wormhole space next to a
\* k-space connection, and the cycle is sending a route through the latter.
C11_Witness ==
    \E p \in Procs :
        /\ pc[p] = "send"
        /\ Len(connections[p]) = 2
        /\ IsJSpace(TheraConnection(connections[p][1]))
        /\ Len(processed_connections[p]) = 1
        /\ Len(good_routes[p]) >= 1

\* C12: the steps of a cycle come in order.  While the feed request is out
\* the sweep is done (no entry it kept is 2 * cooldown old) and nothing later
\* has happened; while a distance request is out the connections are
\* normalised and filtered, the calls before it are answered, and nothing is
\* matched; matching has all the distance lookups behind it; and while routes
\* are sent, or once one was delivered, every route to send has passed the
\* cooldown check and has its fingerprint recorded.
C12_StepsInOrder ==
    \A p \in Procs :
        /\ pc[p] = "fetch" =>
               /\ \A age \in swept[p].kept : age < 2 * config.cooldown_seconds
               /\ connections[p] = <<>> /\ processed_connections[p] = <<>>
               /\ jumps_seen[p] = <<>> /\ lookup_pos[p] = 0
               /\ matched[p] = <<>> /\ good_routes[p] = <<>>
               /\ send_pos[p] = 0 /\ delivered[p] = 0
        /\ pc[p] = "route" =>
               /\ processed_connections[p] # <<>>
               /\ processed_connections[p] = ProcessConnections(connections[p])
               /\ Len(jumps_seen[p]) = lookup_pos[p] - 1
               /\ lookup_pos[p] <= Len(CycleLookups(p))
               /\ matched[p] = <<>> /\ good_routes[p] = <<>>
               /\ send_pos[p] = 0 /\ delivered[p] = 0
        /\ (matched[p] # <<>> \/ good_routes[p] # <<>>) =>
               /\ pc[p] \in {"send", "done"}
               /\ Len(jumps_seen[p]) = Len(CycleLookups(p))
        /\ (pc[p] = "send" \/ delivered[p] > 0) =>
               /\ good_routes[p] # <<>>
               /\ delivered[p] <= send_pos[p]
               /\ \A i \in 1..Len(good_routes[p]) :
                      /\ RouteKey(good_routes[p][i]) \in DOMAIN notified_connections
                      /\ \E j \in 1..Len(matched[p]) :
                             /\ matched[p][j].passed
                             /\ TraceKey(matched[p][j]) = RouteKey(good_routes[p][i])
                             /\ \/ IsNone(matched[p][j].elapsed)
                                \/ Val(matched[p][j].elapsed) >= config.cooldown_seconds

\* C12's case: a cycle went through every step and is sending a route whose
\* fingerprint, recorded a cooldown ago, it has recorded again.
C12_Witness ==
    \E p \in Procs :
        /\ pc[p] = "send"
        /\ send_pos[p] = 1
        /\ Len(jumps_seen[p]) = Len(CycleLookups(p))
        /\ Len(jumps_seen[p]) >= 2
        /\ matched[p][1].elapsed = Some(config.cooldown_seconds)
        /\ notified_connections[RouteKey(good_routes[p][1])] = now

\* C13: whatever becomes of the delivery, a fingerprint accepted less than a
\* cooldown ago is still recorded with the time of its acceptance and is on
\* cooldown; and a cycle whose delivery failed (the send raised, or the
\* channel was not found) has the fingerprints of all its routes recorded.
C13_RecordSurvivesFailedDelivery ==
    /\ \A k \in DOMAIN last_fired :
           /\ k \in DOMAIN notified_connections
           /\ notified_connections[k] = last_fired[k]
           /\ is_on_cooldown(notified_connections, config.cooldown_seconds, k, now)
    /\ \A p \in Procs :
           (pc[p] = "done" /\ delivered[p] < Len(good_routes[p])) =>
               \A i \in 1..Len(good_routes[p]) :
                   /\ RouteKey(good_routes[p][i]) \in DOMAIN notified_connections
                   /\ notified_connections[RouteKey(good_routes[p][i])] <= now

\* C13's case: a cycle has ended, the one send it made having failed, and
\* the route's fingerprint is recorded and on cooldown.
C13_Witness ==
    \E p \in Procs :
        /\ pc[p] = "done"
        /\ Len(good_routes[p]) = 1
        /\ send_pos[p] = 1
        /\ delivered[p] = 0
        /\ is_on_cooldown(notified_connections, config.cooldown_seconds,
                          RouteKey(good_routes[p][1]), now)

\* The feed response gives the cycle nothing to match: it is not a 200, the
\* request failed, no signature touches Thera, or every connection that does
\* leads to wormhole space.
NothingToMatch(response) ==
    \/ response.kind = "error"
    \/ response.status # 200
    \/ \A i \in 1..Len(response.signatures) : ~IsTheraSig(response.signatures[i])
    \/ \A i \in 1..Len(response.signatures) :
           IsTheraSig(response.signatures[i]) =>
               IsJSpace(TheraConnection(response.signatures[i]))

\* C14: a response with nothing to match leaves no connection to process,
\* and the cycle that gets no connection to process ends there, normally: it
\* goes to its end with no distance request sent and none answered, the cache
\* and the tracker as they were, no route and nothing delivered.
C14_NothingToMatchEndsQuietly ==
    [][\A p \in Procs :
          /\ \A r \in FeedResponses :
                 NothingToMatch(r) => ProcessConnections(get_thera_connections(r)) = <<>>
          /\ (pc[p] = "fetch" /\ pc'[p] # "fetch" /\ processed_connections'[p] = <<>>) =>
                 /\ \E r \in FeedResponses :
                        NothingToMatch(r) /\ connections'[p] = get_thera_connections(r)
                 /\ pc'[p] = "done"
                 /\ lookup_pos'[p] = 0 /\ jumps_seen'[p] = <<>>
                 /\ route_cache' = route_cache
                 /\ notified_connections' = notified_connections
                 /\ matched'[p] = <<>> /\ good_routes'[p] = <<>>
                 /\ send_pos'[p] = 0 /\ delivered'[p] = 0
          /\ (pc[p] = "fetch" /\ pc'[p] # "fetch" /\ processed_connections'[p] # <<>>) =>
                 \A r \in FeedResponses :
                     connections'[p] = get_thera_connections(r) => ~NothingToMatch(r)
      ]_vars

\* C14's case: a cycle has ended on a feed whose one Thera connection leads
\* to wormhole space, with nothing looked up, recorded or sent.
C14_Witness ==
    \E p \in Procs :
        /\ pc[p] = "done"
        /\ connections[p] = <<RawWJ>>
        /\ processed_connections[p] = <<>>
        /\ jumps_seen[p] = <<>>
        /\ good_routes[p] = <<>>
        /\ route_cache = EmptyDict
        /\ notified_connections = EmptyDict

\* C15: a pair that passed the threshold and is not on cooldown is emitted
\* whether or not its best entry and best exit are one connection, and the
\* embed of an emitted route carries the same-wormhole flag, and leaves out
\* the exit field, exactly when the matching chose one connection for both.
C15_SameWormholeStillEmitted ==
    \A p \in Procs :
        AfterMatch(p) =>
            /\ \A i \in 1..Len(matched[p]) :
                   LET m == matched[p][i]
                   IN  (/\ ~IsNone(m.best_entry) /\ ~IsNone(m.best_exit)
                        /\ Val(m.best_entry)[2] + Val(m.best_exit)[2] <=
                               m.destination.max_jumps
                        /\ m.passed => (IsNone(m.elapsed)
                                        \/ Val(m.elapsed) >= config.cooldown_seconds))
                           => m.passed /\ Accepted(p, m)
            /\ \A i \in 1..Len(good_routes[p]) :
                   \E j \in 1..Len(matched[p]) :
                       LET m == matched[p][j]
                       IN  /\ m.passed
                           /\ TraceKey(m) = RouteKey(good_routes[p][i])
                           /\ Embed(good_routes[p][i]).same_wormhole <=>
                                  Val(m.best_entry)[1] = Val(m.best_exit)[1]
                           /\ Embed(good_routes[p][i]).exit = <<>> <=>
                                  Val(m.best_entry)[1] = Val(m.best_exit)[1]

\* C15's case: a cycle is sending a route that enters and leaves Thera by
\* the same connection although the feed held two, and its embed says so.
C15_Witness ==
    \E p \in Procs :
        /\ pc[p] = "send"
        /\ Len(processed_connections[p]) = 2
        /\ good_routes[p][send_pos[p]].entry_conn.id = good_routes[p][send_pos[p]].exit_conn.id
        /\ Embed(good_routes[p][send_pos[p]]).same_wormhole

\* C16: every normalised connection that reaches the route matcher has the
\* anchor on exactly one side: a signature with Thera on both sides is not
\* among the processed connections, and no get_route_jumps call, distance
\* dict or route has Thera as a connection's exit system.  The code keeps
\* such a signature: its exit name is Thera's, which does not start with 'J'.
C16_ExactlyOneAnchorSide ==
    \A p \in Procs :
        /\ \A i \in 1..Len(processed_connections[p]) :
               /\ OneAnchorSide(processed_connections[p][i].raw)
               /\ processed_connections[p][i].exit_system_id # THERA_SYSTEM_ID
        /\ \A j \in 1..Len(CycleLookups(p)) :
               THERA_SYSTEM_ID \notin
                   {CycleLookups(p)[j].cache_key[1], CycleLookups(p)[j].cache_key[2]}
        /\ \A j \in 1..Len(good_routes[p]) :
               /\ good_routes[p][j].entry_conn.exit_system_id # THERA_SYSTEM_ID
               /\ good_routes[p][j].exit_conn.exit_system_id # THERA_SYSTEM_ID

\* The step in which the request caller p was waiting for is answered.
AnswerStep(p) == pc[p] = "route" /\ Len(jumps_seen'[p]) > Len(jumps_seen[p])

\* C17: when the answer to a request yields None (a 404, another status that
\* is not 200, or a transport failure) the cache is left as it was; and every
\* get_route_jumps call sends a request unless the cache holds an entry for
\* its pair that is younger than the cache duration, so the pair of a failed
\* lookup is asked for again by the next call for it.
C17_NoneIsNotCached ==
    [][\A p \in Procs :
          /\ AnswerStep(p) =>
                 (IsNone(jumps_seen'[p][lookup_pos[p]]) => route_cache' = route_cache)
          /\ \A i \in (CallsMade(p) + 1)..(CallsMade(p)') :
                 LET k == (CycleLookups(p)')[i].cache_key
                     requested == pc'[p] = "route" /\ lookup_pos'[p] = i
                 IN  requested <=>
                         ~(/\ k \in DOMAIN route_cache'
                           /\ now - route_cache'[k].cached_at < cache_duration)
      ]_vars

\* C17's case: the first lookup of a cycle came back None, the cache holds
\* nothing for its pair, and the cycle is waiting for the next answer.
C17_Witness ==
    \E p \in Procs :
        /\ pc[p] = "route"
        /\ lookup_pos[p] = 2
        /\ IsNone(jumps_seen[p][1])
        /\ CycleLookups(p)[1].cache_key \notin DOMAIN route_cache
        /\ route_cache # EmptyDict

\* C18: the cache is keyed by the ordered pair.  The answer to a request for
\* (A, B) changes no entry but that of (A, B), that of (B, A) included; a
\* get_route_jumps call for (A, B) is answered from the cache exactly when
\* the entry of (A, B) itself is fresh, with that entry's value, and sends its
\* own request otherwise, whatever is stored for (B, A); and every distance a
\* call returned is that of its own direction.
C18_CacheKeyedByOrderedPair ==
    [][\A p \in Procs :
          /\ AnswerStep(p) =>
                 LET lk == CycleLookups(p)[lookup_pos[p]]
                     pair == <<lk.origin_id, lk.destination_id>>
                 IN  /\ DOMAIN route_cache' \subseteq DOMAIN route_cache \cup {pair}
                     /\ \A k \in DOMAIN route_cache \ {pair} :
                            k \in DOMAIN route_cache' /\ route_cache'[k] = route_cache[k]
          /\ \A i \in (CallsMade(p) + 1)..(CallsMade(p)') :
                 LET lk == (CycleLookups(p)')[i]
                     pair == <<lk.origin_id, lk.destination_id>>
                     fresh == /\ pair \in DOMAIN route_cache'
                              /\ now - route_cache'[pair].cached_at < cache_duration
                     requested == pc'[p] = "route" /\ lookup_pos'[p] = i
                 IN  /\ requested <=> ~fresh
                     /\ fresh => jumps_seen'[p][i] = Some(route_cache'[pair].jumps)
          /\ \A i \in 1..Len(jumps_seen'[p]) :
                 ~IsNone(jumps_seen'[p][i]) =>
                     Val(jumps_seen'[p][i]) =
                         RouteLen((CycleLookups(p)')[i].origin_id,
                                  (CycleLookups(p)')[i].destination_id) - 1
      ]_vars

\* C18's case: the entry of (A, B) is fresh in the cache, that of (B, A) is
\* not in it, and the caller is waiting for the answer to its request for
\* (B, A).
C18_Witness ==
    \E p \in Procs :
        /\ pc[p] = "route"
        /\ <<Pending(p).destination_id, Pending(p).origin_id>> \in DOMAIN route_cache
        /\ now - route_cache[<<Pending(p).destination_id, Pending(p).origin_id>>].cached_at
               < cache_duration
        /\ <<Pending(p).origin_id, Pending(p).destination_id>> \notin DOMAIN route_cache

\* C19: every cycle the scheduler has started comes to its end, whatever the
\* lookups return; and a lookup that yields None ends nothing but itself: the
\* connection gets no distance for that pair, and the cycle goes on, to the
\* next lookup that needs a request or, the lookups all made, to matching
\* every pair.
C19_CycleCompletes ==
    /\ (pc["scheduler"] \in {"fetch", "route", "send"}) ~> (pc["scheduler"] = "done")
    /\ [][\A p \in Procs :
             (AnswerStep(p) /\ IsNone(jumps_seen'[p][lookup_pos[p]])) =>
                 /\ lookup_pos'[p] > lookup_pos[p]
                 /\ \/ pc'[p] = "route" /\ lookup_pos'[p] <= Len(CycleLookups(p))
                    \/ /\ pc'[p] \in {"send", "done"}
                       /\ Len(jumps_seen'[p]) = Len(CycleLookups(p))
                       /\ Len(matched'[p]) =
                              Len(config.departure_systems) * Len(config.destinations)
                 /\ LET lk == CycleLookups(p)[lookup_pos[p]]
                        dict == IF lk.side = "departure"
                                THEN GetOrEmpty(departure_to_wh_jumps'[p], lk.system_id)
                                ELSE GetOrEmpty(wh_to_dest_jumps'[p], lk.system_id)
                    IN  ~DictHas(dict, lk.conn.id)
      ]_vars

\* C19's case: a cycle has ended with every lookup made, all of them having
\* come back None.
C19_Witness ==
    \E p \in Procs :
        /\ pc[p] = "done"
        /\ Len(jumps_seen[p]) = Len(CycleLookups(p))
        /\ Len(jumps_seen[p]) >= 2
        /\ \A i \in 1..Len(jumps_seen[p]) : IsNone(jumps_seen[p][i])
        /\ Len(matched[p]) = 1

\* The raw record lacks the optional fields.
LacksOptionalFields(raw_data) ==
    {"max_ship_size", "in_system_class", "out_system_class", "remaining_hours"}
        \cap DOMAIN raw_data = {}

\* C20: a raw record without the optional fields is normalised to size
\* "unknown", security class "unknown" and 0 remaining hours; such a
\* connection renders without an error, as the question mark, the white
\* circle, "Unknown" and an end-of-life warning of 0 hours; and the embed of
\* every route being sent is built without an error.
C20_DefaultsRenderSafely ==
    \A p \in Procs :
        /\ \A i \in 1..Len(connections[p]) :
               LET conn == TheraConnection(connections[p][i])
               IN  LacksOptionalFields(connections[p][i]) =>
                       /\ conn.max_ship_size = "unknown"
                       /\ conn.security_class = "unknown"
                       /\ conn.remaining_hours = 0
        /\ \A i \in 1..Len(processed_connections[p]) :
               LET conn == processed_connections[p][i]
               IN  LacksOptionalFields(conn.raw) =>
                       /\ conn.max_ship_size = "unknown"
                       /\ conn.security_class = "unknown"
                       /\ conn.remaining_hours = 0
                       /\ ~FieldRaises(WormholeField(conn))
                       /\ get_size_emoji(conn) = "question mark"
                       /\ get_security_emoji(conn) = "white circle"
                       /\ Capitalize(conn.max_ship_size) = "Unknown"
                       /\ get_lifetime_status(conn) = <<"warning EOL", 0>>
        /\ pc[p] = "send" =>
               LET embed == Embed(good_routes[p][send_pos[p]])
               IN  /\ ~FieldRaises(embed.entry)
                   /\ \A i \in 1..Len(embed.exit) : ~FieldRaises(embed.exit[i])

\* C20's case: a connection normalised from a record without the optional
\* fields was matched, and the route through it is being sent.
C20_Witness ==
    \E p \in Procs :
        /\ pc[p] = "send"
        /\ LacksOptionalFields(good_routes[p][send_pos[p]].entry_conn.raw)
        /\ Embed(good_routes[p][send_pos[p]]).entry.size = "question mark"
        /\ Embed(good_routes[p][send_pos[p]]).entry.lifetime = <<"warning EOL", 0>>

\* C21: with two callers' cycles interleaved at their awaits, the cooldown
\* check and the record of lines 611-613 are one step: every route a cycle
\* accepts has its timestamp written in the step that accepted it, no route is
\* accepted whose fingerprint was accepted less than a cooldown ago, by
\* whichever caller, and a fingerprint another caller's unfinished cycle has
\* in its good routes is accepted only when its record is a cooldown old.
C21_OneAcceptancePerWindow ==
    [][\A p \in Procs :
          MatchStep(p) =>
              \A i \in 1..Len(good_routes'[p]) :
                  LET key == RouteKey(good_routes'[p][i])
                  IN  /\ key \notin DOMAIN last_fired
                      /\ key \in DOMAIN notified_connections'
                      /\ notified_connections'[key] = now
                      /\ \A q \in Procs \ {p} :
                             (/\ \E j \in 1..Len(good_routes[q]) :
                                     RouteKey(good_routes[q][j]) = key
                              /\ key \in DOMAIN notified_connections)
                                 => now - notified_connections[key] >= config.cooldown_seconds
      ]_vars

\* C21's case: one caller accepted a route and is still waiting for its send
\* when the other caller's cycle runs its matching, meets the same
\* fingerprint less than a cooldown old and leaves it out.
C21_Witness ==
    \E p, q \in Procs :
        /\ p # q
        /\ pc[p] = "send" /\ send_pos[p] = 1 /\ delivered[p] = 0
        /\ AfterMatch(q)
        /\ good_routes[q] = <<>>
        /\ \E i \in 1..Len(matched[q]) :
               /\ matched[q][i].passed
               /\ ~IsNone(matched[q][i].elapsed)
               /\ Val(matched[q][i].elapsed) < config.cooldown_seconds
               /\ Accepted(p, matched[q][i])

\* The step in which caller p's cycle starts: the sweep of line 531.
SweepStep(p) == pc[p] = "idle" /\ pc'[p] = "fetch"

\* C22: with a cooldown greater than zero, _is_on_cooldown answers the same
\* for every fingerprint right before and right after the sweep, and a
\* fingerprint that is on cooldown keeps its record and its timestamp through
\* the sweep; what the sweep removes is at least a cooldown old.
C22_SweepKeepsCooldownDecision ==
    [][\A p \in Procs :
          (SweepStep(p) /\ config.cooldown_seconds > 0) =>
              /\ \A key \in DOMAIN notified_connections \cup DOMAIN notified_connections' :
                     /\ is_on_cooldown(notified_connections, config.cooldown_seconds, key, now)
                            = is_on_cooldown(notified_connections', config.cooldown_seconds,
                                             key, now)
                     /\ is_on_cooldown(notified_connections, config.cooldown_seconds, key, now)
                            => /\ key \in DOMAIN notified_connections'
                               /\ notified_connections'[key] = notified_connections[key]
              /\ \A key \in DOMAIN notified_connections \ DOMAIN notified_connections' :
                     now - notified_connections[key] >= config.cooldown_seconds
      ]_vars

\* C22's case: the sweep just done removed a record and kept one that is on
\* cooldown.
C22_Witness ==
    \E p \in Procs :
        /\ pc[p] = "fetch"
        /\ config.cooldown_seconds > 0
        /\ swept[p].removed # {}
        /\ \E key \in DOMAIN notified_connections :
               is_on_cooldown(notified_connections, config.cooldown_seconds, key, now)

\* An entry of the matching trace with a best entry and a best exit, that
\* is, a route the loop put to the threshold test.
HasRoute(m) == ~IsNone(m.best_entry) /\ ~IsNone(m.best_exit)

\* C23: the matching loop writes a timestamp only under the fingerprint of a
\* route it accepts.  A route it meets and does not accept, the threshold
\* not met or the cooldown running, has its fingerprint as before the loop:
\* absent if it was absent, with the same timestamp otherwise; no record is
\* removed; and after the loop every record that is on cooldown holds the
\* time its route was last accepted, not the time it was last seen.
C23_TimestampOnlyOnAcceptance ==
    [][\A p \in Procs :
          MatchStep(p) =>
              /\ \A key \in DOMAIN notified_connections' \ KeysOf(good_routes'[p]) :
                     /\ key \in DOMAIN notified_connections
                     /\ notified_connections'[key] = notified_connections[key]
              /\ DOMAIN notified_connections \subseteq DOMAIN notified_connections'
              /\ \A key \in KeysOf(good_routes'[p]) : notified_connections'[key] = now
              /\ \A i \in 1..Len(matched'[p]) :
                     LET m == matched'[p][i]
                     IN  (HasRoute(m) /\ TraceKey(m) \notin KeysOf(good_routes'[p])) =>
                             /\ TraceKey(m) \in DOMAIN notified_connections
                                    <=> TraceKey(m) \in DOMAIN notified_connections'
                             /\ m.passed =>
                                    /\ TraceKey(m) \in DOMAIN notified_connections'
                                    /\ notified_connections'[TraceKey(m)] =
                                           now - Val(m.elapsed)
              /\ \A key \in DOMAIN last_fired' :
                     /\ key \in DOMAIN notified_connections'
                     /\ notified_connections'[key] = last_fired'[key]
      ]_vars

\* C23's case: a cycle met a route one time unit after it was notified, the
\* cooldown being two, and a route over the threshold; it accepted neither,
\* the first one's record is still the time of the notification and the
\* second one has no record.
C23_Witness ==
    \E p \in Procs :
        /\ pc[p] = "done"
        /\ good_routes[p] = <<>>
        /\ \E i, j \in 1..Len(matched[p]) :
               /\ matched[p][i].passed
               /\ matched[p][i].elapsed = Some(1)
               /\ notified_connections[TraceKey(matched[p][i])] = now - 1
               /\ HasRoute(matched[p][j])
               /\ ~matched[p][j].passed
               /\ TraceKey(matched[p][j]) \notin DOMAIN notified_connections

\* C24: get_route_jumps returns a cached value only while it is younger than
\* the cache duration.  Of the calls of a step, one that returned without a
\* request returned the value of an entry less than 30 minutes old, and one
\* whose pair has an entry 30 minutes old or older sent a request.  When the
\* request is answered, a success returns the distance the service gave and
\* stores it with the current time, and a failure returns None and leaves
\* the cache, the old entry included, as it was.
C24_StaleNeverReturned ==
    [][\A p \in Procs :
          /\ \A i \in (CallsMade(p) + 1)..(CallsMade(p)') :
                 LET k == (CycleLookups(p)')[i].cache_key
                     requested == pc'[p] = "route" /\ lookup_pos'[p] = i
                 IN  /\ ~requested =>
                            /\ k \in DOMAIN route_cache'
                            /\ now - route_cache'[k].cached_at < cache_duration
                            /\ jumps_seen'[p][i] = Some(route_cache'[k].jumps)
                     /\ (/\ k \in DOMAIN route_cache'
                         /\ now - route_cache'[k].cached_at >= cache_duration) => requested
          /\ AnswerStep(p) =>
                 LET lk == Pending(p)
                     result == jumps_seen'[p][lookup_pos[p]]
                 IN  IF IsNone(result)
                     THEN route_cache' = route_cache
                     ELSE /\ Val(result) = RouteLen(lk.origin_id, lk.destination_id) - 1
                          /\ route_cache'[lk.cache_key] =
                                 [jumps |-> Val(result), cached_at |-> now]
      ]_vars

\* C24's case: a call whose pair had an entry past the cache duration sent
\* its request, the request failed, the call returned None, and the old entry
\* is in the cache as it was while the cycle waits for its next answer.
C24_Witness ==
    \E p \in Procs :
        /\ pc[p] = "route"
        /\ lookup_pos[p] > 1
        /\ LET i == lookup_pos[p] - 1
               k == CycleLookups(p)[i].cache_key
           IN  /\ IsNone(jumps_seen[p][i])
               /\ k \in DOMAIN route_cache
               /\ now - route_cache[k].cached_at >= cache_duration

\* The fingerprints whose timestamp a step writes.
Written ==
    {key \in DOMAIN notified_connections' :
        \/ key \notin DOMAIN notified_connections
        \/ notified_connections'[key] # notified_connections[key]}

E2EKey == <<Origin1, RawKA.id, RawKA.id, Dest1>>

\* C26: suppression ends with the cooldown.  With the cycles kept running
\* and the route within the threshold in each of them, a record that has
\* become a cooldown old leads to the route being accepted and handed to
\* send_notifications again, its record then made anew; and a
\* cycle whose matching loop meets a route within the threshold a cooldown or
\* more after its record was made (or with no record left) accepts it there
\* and then, so the first such cycle is the one that notifies.
C26_SuppressionEnds ==
    /\ (/\ E2EKey \in DOMAIN notified_connections
        /\ now - notified_connections[E2EKey] >= config.cooldown_seconds)
           ~> (/\ pc["scheduler"] \in {"send", "done"}
               /\ E2EKey \in KeysOf(good_routes["scheduler"])
               /\ notified_connections[E2EKey] = now)
    /\ [][\A p \in Procs :
             MatchStep(p) =>
                 \A i \in 1..Len(matched'[p]) :
                     LET m == matched'[p][i]
                     IN  (/\ m.passed
                          /\ \/ IsNone(m.elapsed)
                             \/ Val(m.elapsed) >= config.cooldown_seconds)
                             => /\ TraceKey(m) \in KeysOf(good_routes'[p])
                                /\ notified_connections'[TraceKey(m)] = now
      ]_vars

\* C26's case: the route was notified, no cycle met it when the cooldown
\* ran out, and the first cycle to run afterwards, more than a cooldown after
\* the notification, accepted it and is sending it.
C26_Witness ==
    /\ pc["scheduler"] = "send"
    /\ Len(matched["scheduler"]) = 1
    /\ matched["scheduler"][1].passed
    /\ ~IsNone(matched["scheduler"][1].elapsed)
    /\ Val(matched["scheduler"][1].elapsed) > config.cooldown_seconds
    /\ E2EKey \in KeysOf(good_routes["scheduler"])
    /\ notified_connections[E2EKey] = now

====
